---- MODULE Spec2Model ----
(***************************************************************************)
(* Character / magic-item service (src/main.py, src/models.py).            *)
(*                                                                         *)
(* The store holds two tables, personagens and itens_magicos.  Every route *)
(* handler of main.py is one action; the request body is validated by the  *)
(* pydantic schema first, then the handler runs its queries and commits.   *)
(* The response of the last request is kept in `resposta` so that the      *)
(* status code and the error can be related to the stored rows.            *)
(***************************************************************************)
EXTENDS Integers, FiniteSets, Sequences, TLC

\* ---------------------------------------------------------------- bounds
MaxPersonagens == 2
MaxItens == 2

PersonagemIds == 1..MaxPersonagens
ItemIds == 1..MaxItens

\* personagem_id of an unowned item (SQL NULL / Python None); ids start at 1
None == 0

\* ------------------------------------------------------------ enumerations
ARMA == "Arma"
ARMADURA == "Armadura"
AMULETO == "Amuleto"
TipoItem == {ARMA, ARMADURA, AMULETO}

GUERREIRO == "Guerreiro"

\* ------------------------------------------------------- request payloads
\* A JSON body is a function from the field names it carries to their values:
\* an optional field that the client leaves out is not in its domain.
AttrForca == {0, 5, 11}
AttrDefesa == {-1, 0, 5}

ItemBodies ==
    UNION { { [nome |-> "item", tipo |-> t],
              [nome |-> "item", tipo |-> t, forca |-> f],
              [nome |-> "item", tipo |-> t, defesa |-> d],
              [nome |-> "item", tipo |-> t, forca |-> f, defesa |-> d] }
            : t \in TipoItem, f \in AttrForca, d \in AttrDefesa }

LevelIn == {0, 1}
ForcaBaseIn == {-1, 0, 6, 7, 11}
DefesaBaseIn == {-1, 4, 10, 11}

PersonagemBodies ==
    UNION { { [nome |-> "p", nome_aventureiro |-> "a", classe |-> GUERREIRO,
               forca_base |-> f, defesa_base |-> d],
              [nome |-> "p", nome_aventureiro |-> "a", classe |-> GUERREIRO,
               level |-> l, forca_base |-> f, defesa_base |-> d] }
            : l \in LevelIn, f \in ForcaBaseIn, d \in DefesaBaseIn }

\* The bodies the assignment specifications draw from: one accepted and one
\* rejected character, and for every item type the body with no attribute,
\* the bodies with a strength alone and the body with both attributes 0.
PersonagemBodiesBasicos ==
    { b \in PersonagemBodies : "level" \notin DOMAIN b /\ b.forca_base \in {6, 7} /\ b.defesa_base = 4 }

ItemBodiesBasicos ==
    { b \in ItemBodies :
        \/ DOMAIN b \cap {"forca", "defesa"} = {}
        \/ DOMAIN b \cap {"forca", "defesa"} = {"forca"} /\ b.forca # 0
        \/ DOMAIN b \cap {"forca", "defesa"} = {"forca", "defesa"} /\ b.forca = 0 /\ b.defesa = 0 }

NomesAventureiro == {"a", "b"}
\* body of PUT .../nome-aventureiro; the parameter defaults to None (no body)
SemCorpo == [ausente |-> TRUE]
NomeBodies == { [nome_aventureiro |-> n] : n \in NomesAventureiro } \cup {SemCorpo}
\* body of POST .../adicionar-item
AdicionarBodies == { [item_id |-> i] : i \in ItemIds } \cup {SemCorpo}

\* ------------------------------------------------------------------ state
VARIABLES personagens, itens_magicos, resposta, pedidos

vars == <<personagens, itens_magicos, resposta, pedidos>>

\* ------------------------------------------------- pydantic: ItemMagicoBase
Campo(body, nome, default) == IF nome \in DOMAIN body THEN body[nome] ELSE default

ErroForcaIntervalo == "forca: valor fora do intervalo"
ErroDefesaIntervalo == "defesa: valor fora do intervalo"
ErroLevelIntervalo == "level: valor fora do intervalo"
ErroForcaBaseIntervalo == "forca_base: valor fora do intervalo"
ErroDefesaBaseIntervalo == "defesa_base: valor fora do intervalo"
ErroArmaduraForca == "Itens do tipo Armadura devem ter forca zero"
ErroArmaDefesa == "Itens do tipo Arma devem ter defesa zero"
ErroSemAtributo == "Item deve ter pelo menos um atributo maior que zero"
ErroSomaPontos == "A soma de forca e defesa nao pode exceder 10 pontos"

conint(v, ge, le) == v >= ge /\ v <= le

\* validator("forca"): runs only when the field is supplied and in range
validar_forca_arma(v, tipo) == ~(tipo = ARMADURA /\ v # 0)

\* first validator("defesa")
validar_defesa_armadura(v, tipo) == ~(tipo = ARMA /\ v # 0)

\* second validator("defesa"); forca_ok: "forca" in values
validar_item_com_atributo(v, forca_ok, forca) == ~(forca_ok /\ forca = 0 /\ v = 0)

ErrosForca(body) ==
    IF "forca" \notin DOMAIN body THEN {}
    ELSE IF ~conint(body.forca, 0, 10) THEN {ErroForcaIntervalo}
    ELSE IF ~validar_forca_arma(body.forca, body.tipo) THEN {ErroArmaduraForca}
    ELSE {}

ErrosDefesa(body) ==
    IF "defesa" \notin DOMAIN body THEN {}
    ELSE IF ~conint(body.defesa, 0, 10) THEN {ErroDefesaIntervalo}
    ELSE IF ~validar_defesa_armadura(body.defesa, body.tipo) THEN {ErroArmaDefesa}
    ELSE IF ~validar_item_com_atributo(body.defesa, ErrosForca(body) = {}, Campo(body, "forca", 0))
         THEN {ErroSemAtributo}
    ELSE {}

ItemMagicoBase(body) == ErrosForca(body) \cup ErrosDefesa(body)

\* --------------------------------------------------- pydantic: PersonagemBase
ErrosLevel(body) ==
    IF "level" \notin DOMAIN body THEN {}
    ELSE IF body.level < 1 THEN {ErroLevelIntervalo}
    ELSE {}

ErrosForcaBase(body) ==
    IF ~conint(body.forca_base, 0, 10) THEN {ErroForcaBaseIntervalo} ELSE {}

\* the budget test off by one
validar_total_pontos_onze(v, forca_ok, forca_base) == ~(forca_ok /\ forca_base + v > 11)

validar_total_pontos(v, forca_ok, forca_base) == ~(forca_ok /\ forca_base + v > 10)

ErrosDefesaBase(body) ==
    IF ~conint(body.defesa_base, 0, 10) THEN {ErroDefesaBaseIntervalo}
    ELSE IF ~validar_total_pontos(body.defesa_base, ErrosForcaBase(body) = {}, body.forca_base)
         THEN {ErroSomaPontos}
    ELSE {}

PersonagemBase(body) == ErrosLevel(body) \cup ErrosForcaBase(body) \cup ErrosDefesaBase(body)

\* ------------------------------------------------ models.py: table constraints
PersonagemTableArgs(row) ==
    /\ row.forca_base + row.defesa_base <= 10
    /\ row.forca_base >= 0
    /\ row.defesa_base >= 0

\* the table without check_item_tem_atributo
ItemMagicoTableArgsSemAtributo(row) ==
    /\ row.forca >= 0 /\ row.forca <= 10
    /\ row.defesa >= 0 /\ row.defesa <= 10
    /\ ((row.tipo # ARMA) \/ (row.tipo = ARMA /\ row.defesa = 0))
    /\ ((row.tipo # ARMADURA) \/ (row.tipo = ARMADURA /\ row.forca = 0))

ItemMagicoTableArgs(row) ==
    /\ row.forca >= 0 /\ row.forca <= 10
    /\ row.defesa >= 0 /\ row.defesa <= 10
    /\ (row.forca > 0 \/ row.defesa > 0)
    /\ ((row.tipo # ARMA) \/ (row.tipo = ARMA /\ row.defesa = 0))
    /\ ((row.tipo # ARMADURA) \/ (row.tipo = ARMADURA /\ row.forca = 0))

\* ------------------------------------------------------------- responses
Resposta(op, pid, iid, body, status, detail) ==
    [op |-> op, personagem_id |-> pid, item_id |-> iid, body |-> body,
     status |-> status, detail |-> detail]

PersonagemNaoEncontrado == "Personagem nao encontrado"
ItemNaoEncontrado == "Item magico nao encontrado"
ItemJaAtribuido == "Item ja atribuido a outro personagem"
JaPossuiAmuleto == "Personagem ja possui um amuleto"
ItemNaoNoInventario == "Item nao encontrado no inventario deste personagem"
ErroInterno == "Internal Server Error"

\* ------------------------------------------------------------------ Init
\* in-flight POST .../adicionar-item requests of the interleaved specification
MaxPedidos == 2
Pedidos == 1..MaxPedidos
Livre == [fase |-> "livre"]

Init ==
    /\ personagens = <<>>
    /\ itens_magicos = <<>>
    /\ resposta = Resposta("inicio", None, None, SemCorpo, 0, {})
    /\ pedidos = [s \in Pedidos |-> Livre]

\* ------------------------------------------------------------- queries
\* personagem.itens_magicos / filter(ItemMagico.personagem_id == personagem_id)
ItensDe(I, pid) == { i \in DOMAIN I : I[i].personagem_id = pid }

\* filter(personagem_id == pid, tipo == AMULETO): the rows .first() may return
AmuletosDe(I, pid) == { i \in ItensDe(I, pid) : I[i].tipo = AMULETO }

\* .first() of that query: None when no row matches, otherwise one of the rows
\* (the query has no ORDER BY)
AmuletoExistente(I, pid) == IF AmuletosDe(I, pid) = {} THEN {None} ELSE AmuletosDe(I, pid)

\* ------------------------------------------------------------- handlers
\* POST /personagens/
criar_personagem(body) ==
    LET erros == PersonagemBase(body)
        row == [nome |-> body.nome, nome_aventureiro |-> body.nome_aventureiro,
                classe |-> body.classe, level |-> Campo(body, "level", 1),
                forca_base |-> body.forca_base, defesa_base |-> body.defesa_base]
    IN
    IF erros # {}
    THEN /\ resposta' = Resposta("criar_personagem", None, None, body, 422, erros)
         /\ UNCHANGED <<personagens, itens_magicos, pedidos>>
    ELSE IF ~PersonagemTableArgs(row)
    THEN /\ resposta' = Resposta("criar_personagem", None, None, body, 500, {ErroInterno})
         /\ UNCHANGED <<personagens, itens_magicos, pedidos>>
    ELSE \E id \in PersonagemIds \ DOMAIN personagens :
         /\ personagens' = (id :> row) @@ personagens
         /\ resposta' = Resposta("criar_personagem", id, None, body, 200, {})
         /\ UNCHANGED <<itens_magicos, pedidos>>

\* PUT /personagens/{personagem_id}/nome-aventureiro
atualizar_nome_aventureiro(pid, dados) ==
    /\ UNCHANGED <<itens_magicos, pedidos>>
    /\ IF pid \notin DOMAIN personagens
       THEN /\ resposta' = Resposta("atualizar_nome_aventureiro", pid, None, dados, 404,
                                    {PersonagemNaoEncontrado})
            /\ UNCHANGED personagens
       ELSE IF dados = SemCorpo
       THEN /\ resposta' = Resposta("atualizar_nome_aventureiro", pid, None, dados, 500,
                                    {ErroInterno})
            /\ UNCHANGED personagens
       ELSE /\ personagens' = [personagens EXCEPT ![pid].nome_aventureiro = dados.nome_aventureiro]
            /\ resposta' = Resposta("atualizar_nome_aventureiro", pid, None, dados, 200, {})

\* a delete that leaves the owned items pointing at the removed row
DesvincularItensNenhum(I, pid) == I

\* the rows of itens_magicos after DELETE /personagens/{pid}
DesvincularItens(I, pid) ==
    [i \in DOMAIN I |-> IF I[i].personagem_id = pid THEN [I[i] EXCEPT !.personagem_id = None]
                                                     ELSE I[i]]

\* the rows of personagens after the delete
SemPersonagem(P, pid) == [p \in DOMAIN P \ {pid} |-> P[p]]

\* DELETE /personagens/{personagem_id}
remover_personagem(pid) ==
    /\ UNCHANGED pedidos
    /\ IF pid \notin DOMAIN personagens
       THEN /\ resposta' = Resposta("remover_personagem", pid, None, SemCorpo, 404,
                                    {PersonagemNaoEncontrado})
            /\ UNCHANGED <<personagens, itens_magicos>>
       ELSE /\ itens_magicos' = DesvincularItens(itens_magicos, pid)
            /\ personagens' = SemPersonagem(personagens, pid)
            /\ resposta' = Resposta("remover_personagem", pid, None, SemCorpo, 200, {})

\* POST /itens-magicos/
criar_item_magico(body) ==
    LET erros == ItemMagicoBase(body)
        row == [nome |-> body.nome, tipo |-> body.tipo,
                forca |-> Campo(body, "forca", 0), defesa |-> Campo(body, "defesa", 0),
                personagem_id |-> None]
    IN
    IF erros # {}
    THEN /\ resposta' = Resposta("criar_item_magico", None, None, body, 422, erros)
         /\ UNCHANGED <<personagens, itens_magicos, pedidos>>
    ELSE IF ~ItemMagicoTableArgs(row)
    THEN /\ resposta' = Resposta("criar_item_magico", None, None, body, 500, {ErroInterno})
         /\ UNCHANGED <<personagens, itens_magicos, pedidos>>
    ELSE \E id \in ItemIds \ DOMAIN itens_magicos :
         /\ itens_magicos' = (id :> row) @@ itens_magicos
         /\ resposta' = Resposta("criar_item_magico", None, id, body, 200, {})
         /\ UNCHANGED <<personagens, pedidos>>

\* the ownership test without the exception for the current owner
JaAtribuidoSempre(item, pid) == item.personagem_id # None

\* item.personagem_id is not None and item.personagem_id != personagem_id
JaAtribuido(item, pid) == item.personagem_id # None /\ item.personagem_id # pid

\* the amulet test dropped
ConflitoAmuletoNunca(amuleto_existente, iid) == FALSE

\* the amulet test without the comparison of ids
ConflitoAmuletoSemId(amuleto_existente, iid) == amuleto_existente # None

\* amuleto_existente and amuleto_existente.id != item.id
ConflitoAmuleto(amuleto_existente, iid) == amuleto_existente # None /\ amuleto_existente # iid

\* the checks with the amulet test moved before the ownership test
VerificarAdicionarAmuletoPrimeiro(P, I, pid, dados, amuleto_existente) ==
    IF pid \notin DOMAIN P THEN [status |-> 404, detail |-> {PersonagemNaoEncontrado}]
    ELSE IF dados = SemCorpo THEN [status |-> 500, detail |-> {ErroInterno}]
    ELSE IF dados.item_id \notin DOMAIN I THEN [status |-> 404, detail |-> {ItemNaoEncontrado}]
    ELSE IF I[dados.item_id].tipo = AMULETO /\ ConflitoAmuleto(amuleto_existente, dados.item_id)
         THEN [status |-> 400, detail |-> {JaPossuiAmuleto}]
    ELSE IF JaAtribuido(I[dados.item_id], pid) THEN [status |-> 400, detail |-> {ItemJaAtribuido}]
    ELSE [status |-> 200, detail |-> {}]

\* The reads and checks of adicionar_item_personagem on the rows P, I, with
\* amuleto_existente the row its .first() returned: the status and the error.
VerificarAdicionar(P, I, pid, dados, amuleto_existente) ==
    IF pid \notin DOMAIN P THEN [status |-> 404, detail |-> {PersonagemNaoEncontrado}]
    ELSE IF dados = SemCorpo THEN [status |-> 500, detail |-> {ErroInterno}]
    ELSE IF dados.item_id \notin DOMAIN I THEN [status |-> 404, detail |-> {ItemNaoEncontrado}]
    ELSE IF JaAtribuido(I[dados.item_id], pid) THEN [status |-> 400, detail |-> {ItemJaAtribuido}]
    ELSE IF I[dados.item_id].tipo = AMULETO /\ ConflitoAmuleto(amuleto_existente, dados.item_id)
         THEN [status |-> 400, detail |-> {JaPossuiAmuleto}]
    ELSE [status |-> 200, detail |-> {}]

\* item.personagem_id = personagem.id
AtribuirItem(I, pid, iid) == [I EXCEPT ![iid].personagem_id = pid]

\* the rows of itens_magicos after the whole handler
ItensAposAdicionar(P, I, pid, dados, amuleto_existente) ==
    IF VerificarAdicionar(P, I, pid, dados, amuleto_existente).status = 200
    THEN AtribuirItem(I, pid, dados.item_id)
    ELSE I

IdDe(dados) == IF dados = SemCorpo THEN None ELSE dados.item_id

\* POST /personagens/{personagem_id}/adicionar-item, one request at a time
adicionar_item_personagem(pid, dados) ==
    \E amuleto_existente \in AmuletoExistente(itens_magicos, pid) :
        LET r == VerificarAdicionar(personagens, itens_magicos, pid, dados, amuleto_existente)
        IN /\ itens_magicos' = ItensAposAdicionar(personagens, itens_magicos, pid, dados,
                                                  amuleto_existente)
           /\ resposta' = Resposta("adicionar_item_personagem", pid, IdDe(dados), dados,
                                   r.status, r.detail)
           /\ UNCHANGED <<personagens, pedidos>>

\* the item looked up by id alone
VerificarRemoverSemDono(P, I, pid, iid) ==
    IF pid \notin DOMAIN P THEN [status |-> 404, detail |-> {PersonagemNaoEncontrado}]
    ELSE IF iid \notin DOMAIN I THEN [status |-> 404, detail |-> {ItemNaoNoInventario}]
    ELSE [status |-> 200, detail |-> {}]

\* the checks of remover_item_do_personagem
VerificarRemover(P, I, pid, iid) ==
    IF pid \notin DOMAIN P THEN [status |-> 404, detail |-> {PersonagemNaoEncontrado}]
    ELSE IF ~(iid \in DOMAIN I /\ I[iid].personagem_id = pid)
         THEN [status |-> 404, detail |-> {ItemNaoNoInventario}]
    ELSE [status |-> 200, detail |-> {}]

ItensAposRemover(P, I, pid, iid) ==
    IF VerificarRemover(P, I, pid, iid).status = 200
    THEN [I EXCEPT ![iid].personagem_id = None]
    ELSE I

\* DELETE /personagens/{personagem_id}/itens/{item_id}
remover_item_do_personagem(pid, iid) ==
    LET r == VerificarRemover(personagens, itens_magicos, pid, iid)
    IN /\ itens_magicos' = ItensAposRemover(personagens, itens_magicos, pid, iid)
       /\ resposta' = Resposta("remover_item_do_personagem", pid, iid, SemCorpo,
                               r.status, r.detail)
       /\ UNCHANGED <<personagens, pedidos>>

\* ------------------------------------------------------- specifications
\* Requests handled one at a time (a single worker: the handlers never await).
Next ==
    \/ \E body \in PersonagemBodiesBasicos : criar_personagem(body)
    \/ \E pid \in PersonagemIds, dados \in NomeBodies : atualizar_nome_aventureiro(pid, dados)
    \/ \E pid \in PersonagemIds : remover_personagem(pid)
    \/ \E body \in ItemBodiesBasicos : criar_item_magico(body)
    \/ \E pid \in PersonagemIds, dados \in AdicionarBodies : adicionar_item_personagem(pid, dados)
    \/ \E pid \in PersonagemIds, iid \in ItemIds : remover_item_do_personagem(pid, iid)

Spec == Init /\ [][Next]_vars

\* The item schema and the table constraints on every item body.
NextItens == \E body \in ItemBodies : criar_item_magico(body)

SpecItens == Init /\ [][NextItens]_vars

\* The character schema on every character body, and the one update.
NextPersonagens ==
    \/ \E body \in PersonagemBodies : criar_personagem(body)
    \/ \E pid \in PersonagemIds, dados \in NomeBodies : atualizar_nome_aventureiro(pid, dados)

SpecPersonagens == Init /\ [][NextPersonagens]_vars

\* ------------------------------------------- interleaved adicionar-item
\* Several workers: a request's queries (lines 305-332) and its commit (lines
\* 334-336) are separate statements on the store, and other requests' commits
\* can fall between them.  `lido` is item.personagem_id as the session loaded it.
IniciarAdicionar(s, pid, dados) ==
    /\ pedidos[s] = Livre
    /\ \E amuleto_existente \in AmuletoExistente(itens_magicos, pid) :
        LET r == VerificarAdicionar(personagens, itens_magicos, pid, dados, amuleto_existente)
        IN IF r.status = 200
           THEN /\ pedidos' = [pedidos EXCEPT ![s] =
                                  [fase |-> "commit", personagem_id |-> pid,
                                   item_id |-> dados.item_id,
                                   lido |-> itens_magicos[dados.item_id].personagem_id]]
                /\ UNCHANGED <<personagens, itens_magicos, resposta>>
           ELSE /\ resposta' = Resposta("adicionar_item_personagem", pid, IdDe(dados), dados,
                                        r.status, r.detail)
                /\ UNCHANGED <<personagens, itens_magicos, pedidos>>

\* a commit that writes only while the character holds no other amulet
GravarAdicionarCondicional(I, pid, iid, lido) ==
    IF lido = pid \/ (I[iid].tipo = AMULETO /\ AmuletosDe(I, pid) \ {iid} # {})
    THEN I
    ELSE AtribuirItem(I, pid, iid)

\* The commit writes the row the check was made for, whatever was committed
\* since: the unit of work emits the UPDATE when the assignment changed the
\* loaded value, and nothing when it did not.
GravarAdicionar(I, pid, iid, lido) == IF lido = pid THEN I ELSE AtribuirItem(I, pid, iid)

\* item.personagem_id = personagem.id; db.commit(); db.refresh(personagem)
ConfirmarAdicionar(s) ==
    /\ pedidos[s] # Livre
    /\ LET pid == pedidos[s].personagem_id
           iid == pedidos[s].item_id
           dados == [item_id |-> iid]
       IN IF pid \in DOMAIN personagens
          THEN /\ itens_magicos' = GravarAdicionar(itens_magicos, pid, iid, pedidos[s].lido)
               /\ resposta' = Resposta("adicionar_item_personagem", pid, iid, dados, 200, {})
          ELSE \* the character was deleted meanwhile: the refresh finds no row; the
               \* UPDATE is refused when the store enforces the foreign key and
               \* goes through when it does not
               /\ itens_magicos' \in {itens_magicos,
                                      GravarAdicionar(itens_magicos, pid, iid, pedidos[s].lido)}
               /\ resposta' = Resposta("adicionar_item_personagem", pid, iid, dados, 500,
                                       {ErroInterno})
    /\ pedidos' = [pedidos EXCEPT ![s] = Livre]
    /\ UNCHANGED personagens

\* The accepted character body, and a strength-only body for every item type.
PersonagemBodiesConc == { b \in PersonagemBodiesBasicos : b.forca_base = 6 }
ItemBodiesConc == { b \in ItemBodiesBasicos : "forca" \in DOMAIN b /\ b.forca = 5 }

NextConc ==
    \/ \E body \in PersonagemBodiesConc : criar_personagem(body)
    \/ \E pid \in PersonagemIds : remover_personagem(pid)
    \/ \E body \in ItemBodiesConc : criar_item_magico(body)
    \/ \E pid \in PersonagemIds, iid \in ItemIds : remover_item_do_personagem(pid, iid)
    \/ \E s \in Pedidos, pid \in PersonagemIds, dados \in AdicionarBodies :
          IniciarAdicionar(s, pid, dados)
    \/ \E s \in Pedidos : ConfirmarAdicionar(s)

SpecConc == Init /\ [][NextConc]_vars

\* ================================================================ claims
\* the stored fields of an item other than its owner
Fixos(item) == <<item.nome, item.tipo, item.forca, item.defesa>>

EhAdicionar(r) == r.op = "adicionar_item_personagem" /\ r.body # SemCorpo
EhRemoverItem(r) == r.op = "remover_item_do_personagem"
EhRemoverPersonagem(r) == r.op = "remover_personagem"
EhCriarItem(r) == r.op = "criar_item_magico"
EhCriarPersonagem(r) == r.op = "criar_personagem"
EhAtualizarNome(r) == r.op = "atualizar_nome_aventureiro"

\* C1: with requests handled one at a time, no character ever owns more than
\* one item of type Amulet.
AmuletoUnico ==
    \A p \in PersonagemIds : Cardinality(AmuletosDe(itens_magicos, p)) <= 1

\* C1 witness: a second Amulet was refused with the amulet conflict while the
\* character holds its one Amulet.
AmuletoUnicoWitness ==
    /\ EhAdicionar(resposta)
    /\ resposta.status = 400
    /\ resposta.detail = {JaPossuiAmuleto}
    /\ Cardinality(AmuletosDe(itens_magicos, resposta.personagem_id)) = 1
    /\ itens_magicos[resposta.item_id].personagem_id = None

\* the condition C2 gives for an attach to succeed
PodeAdicionar(P, I, c, i) ==
    /\ c \in DOMAIN P
    /\ i \in DOMAIN I
    /\ I[i].personagem_id \in {None, c}
    /\ (I[i].tipo # AMULETO \/ AmuletosDe(I, c) \ {i} = {})

\* C2: an attach request succeeds exactly when the character exists, the item
\* exists, the item is unowned or owned by that character, and the item is no
\* Amulet or the character owns no other Amulet; on success the item's owner
\* becomes the character and nothing else changes; on failure nothing changes.
AdicionarExato ==
    [][ EhAdicionar(resposta') =>
          LET c == resposta'.personagem_id
              i == resposta'.item_id
          IN /\ (resposta'.status = 200) <=> PodeAdicionar(personagens, itens_magicos, c, i)
             /\ personagens' = personagens
             /\ itens_magicos' = IF resposta'.status = 200
                                 THEN [itens_magicos EXCEPT ![i].personagem_id = c]
                                 ELSE itens_magicos ]_vars

\* C2 witness: an Amulet was attached to a character while another Amulet is
\* in the store unowned (the earlier Amulet, detached).
AdicionarExatoWitness ==
    /\ EhAdicionar(resposta)
    /\ resposta.status = 200
    /\ itens_magicos[resposta.item_id].tipo = AMULETO
    /\ itens_magicos[resposta.item_id].personagem_id = resposta.personagem_id
    /\ \E j \in DOMAIN itens_magicos \ {resposta.item_id} :
          itens_magicos[j].tipo = AMULETO /\ itens_magicos[j].personagem_id = None

\* C3: attaching an item owned by another character fails with 400 "already
\* owned" and changes no row, also when the item is an Amulet and the
\* character holds one; and an item's owner never changes from one character
\* directly to another.
PosseExclusiva ==
    [][ /\ ( /\ EhAdicionar(resposta')
             /\ resposta'.personagem_id \in DOMAIN personagens
             /\ resposta'.item_id \in DOMAIN itens_magicos
             /\ itens_magicos[resposta'.item_id].personagem_id
                    \notin {None, resposta'.personagem_id} )
           => /\ resposta'.status = 400
              /\ resposta'.detail = {ItemJaAtribuido}
              /\ itens_magicos' = itens_magicos
        /\ \A i \in DOMAIN itens_magicos :
              \/ itens_magicos'[i].personagem_id = itens_magicos[i].personagem_id
              \/ itens_magicos[i].personagem_id = None
              \/ itens_magicos'[i].personagem_id = None ]_vars

\* C3 witness: the refused item is an Amulet of another character and the
\* requesting character holds an Amulet of its own.
PosseExclusivaWitness ==
    /\ EhAdicionar(resposta)
    /\ resposta.status = 400
    /\ resposta.detail = {ItemJaAtribuido}
    /\ itens_magicos[resposta.item_id].tipo = AMULETO
    /\ AmuletosDe(itens_magicos, resposta.personagem_id) # {}

\* C4: re-attaching an item to its owner succeeds and leaves every row as it
\* was, whatever the item's type; and right after a detach, attaching the same
\* item to the same character succeeds and gives back the rows from before
\* the detach.
ReatribuirIdempotente ==
    [][ /\ ( /\ EhAdicionar(resposta')
             /\ resposta'.personagem_id \in DOMAIN personagens
             /\ resposta'.item_id \in DOMAIN itens_magicos
             /\ itens_magicos[resposta'.item_id].personagem_id = resposta'.personagem_id )
           => /\ resposta'.status = 200
              /\ itens_magicos' = itens_magicos
              /\ personagens' = personagens
        /\ ( EhRemoverItem(resposta') /\ resposta'.status = 200 )
           => \A a \in AmuletoExistente(itens_magicos', resposta'.personagem_id) :
                LET dados == [item_id |-> resposta'.item_id]
                IN /\ VerificarAdicionar(personagens', itens_magicos',
                                         resposta'.personagem_id, dados, a).status = 200
                   /\ ItensAposAdicionar(personagens', itens_magicos',
                                         resposta'.personagem_id, dados, a) = itens_magicos
       ]_vars

\* C4 witness: an Amulet has just been detached from its owner.
ReatribuirIdempotenteWitness ==
    /\ EhRemoverItem(resposta)
    /\ resposta.status = 200
    /\ itens_magicos[resposta.item_id].tipo = AMULETO
    /\ itens_magicos[resposta.item_id].personagem_id = None

\* C5: deleting an existing character removes its row and clears the owner of
\* each of its items; every item keeps its id and its other fields, the
\* items of other characters keep their owner, and no item points at the
\* deleted character any more.  Deleting a missing character answers 404 and
\* changes nothing.
RemoverPersonagemDesvincula ==
    [][ EhRemoverPersonagem(resposta') =>
          LET c == resposta'.personagem_id
          IN IF c \in DOMAIN personagens
             THEN /\ resposta'.status = 200
                  /\ DOMAIN personagens' = DOMAIN personagens \ {c}
                  /\ \A p \in DOMAIN personagens' : personagens'[p] = personagens[p]
                  /\ DOMAIN itens_magicos' = DOMAIN itens_magicos
                  /\ \A i \in DOMAIN itens_magicos :
                        /\ Fixos(itens_magicos'[i]) = Fixos(itens_magicos[i])
                        /\ itens_magicos'[i].personagem_id =
                              IF itens_magicos[i].personagem_id = c
                              THEN None
                              ELSE itens_magicos[i].personagem_id
                        /\ itens_magicos'[i].personagem_id # c
             ELSE /\ resposta'.status = 404
                  /\ resposta'.detail = {PersonagemNaoEncontrado}
                  /\ personagens' = personagens
                  /\ itens_magicos' = itens_magicos ]_vars

\* C5 witness: a character was deleted, an unowned item and an item of
\* another character are in the store.
RemoverPersonagemDesvinculaWitness ==
    /\ EhRemoverPersonagem(resposta)
    /\ resposta.status = 200
    /\ \E i, j \in DOMAIN itens_magicos :
          /\ itens_magicos[i].personagem_id = None
          /\ itens_magicos[j].personagem_id \in DOMAIN personagens

\* C6: a detach answers 404 "character not found" for a missing character and
\* 404 "item not found" when the item is missing, unowned or owned by another
\* character, changing nothing; otherwise it answers 200 and only clears the
\* owner of that item.
RemoverItemExato ==
    [][ EhRemoverItem(resposta') =>
          LET c == resposta'.personagem_id
              i == resposta'.item_id
          IN /\ personagens' = personagens
             /\ IF c \notin DOMAIN personagens
                THEN /\ resposta'.status = 404
                     /\ resposta'.detail = {PersonagemNaoEncontrado}
                     /\ itens_magicos' = itens_magicos
                ELSE IF i \notin DOMAIN itens_magicos \/ itens_magicos[i].personagem_id # c
                THEN /\ resposta'.status = 404
                     /\ resposta'.detail = {ItemNaoNoInventario}
                     /\ itens_magicos' = itens_magicos
                ELSE /\ resposta'.status = 200
                     /\ itens_magicos' = [itens_magicos EXCEPT ![i].personagem_id = None] ]_vars

\* C6 witness: the detach of an item owned by another character was answered
\* with 404 "item not found".
RemoverItemExatoWitness ==
    /\ EhRemoverItem(resposta)
    /\ resposta.status = 404
    /\ resposta.detail = {ItemNaoNoInventario}
    /\ resposta.personagem_id \in DOMAIN personagens
    /\ resposta.item_id \in DOMAIN itens_magicos
    /\ itens_magicos[resposta.item_id].personagem_id \in DOMAIN personagens \ {resposta.personagem_id}

\* C7: a create-item request whose strength and defense are both 0, given as
\* 0 or left out, is answered 422 with the zero-attribute validation error.
SemAtributoRejeitado ==
    ( /\ EhCriarItem(resposta)
      /\ Campo(resposta.body, "forca", 0) = 0
      /\ Campo(resposta.body, "defesa", 0) = 0 )
    => /\ resposta.status = 422
       /\ ErroSemAtributo \in resposta.detail

\* the invariants of a stored item
ItemValido(item) ==
    /\ item.forca \in 0..10
    /\ item.defesa \in 0..10
    /\ (item.forca > 0 \/ item.defesa > 0)
    /\ (item.tipo = ARMA => item.defesa = 0)
    /\ (item.tipo = ARMADURA => item.forca = 0)

LevelDe(body) == Campo(body, "level", 1)

\* the condition C9 gives for a character to be accepted
PersonagemAceite(body) ==
    /\ LevelDe(body) >= 1
    /\ body.forca_base \in 0..10
    /\ body.defesa_base \in 0..10
    /\ body.forca_base + body.defesa_base <= 10

\* C9: a create-character request is accepted exactly when level >= 1, both
\* base attributes are in [0,10] and their sum is at most 10; a sum above 10
\* of two attributes in range is refused with the budget error; every stored
\* character has a sum of at most 10; and a rename changes the adventurer
\* name of that character and nothing else.
OrcamentoPersonagem ==
    [][ /\ EhCriarPersonagem(resposta') =>
              /\ (resposta'.status = 200) <=> PersonagemAceite(resposta'.body)
              /\ resposta'.status \in {200, 422}
              /\ ( /\ resposta'.body.forca_base \in 0..10
                   /\ resposta'.body.defesa_base \in 0..10
                   /\ resposta'.body.forca_base + resposta'.body.defesa_base > 10 )
                 => ErroSomaPontos \in resposta'.detail
        /\ \A p \in DOMAIN personagens' :
              personagens'[p].forca_base + personagens'[p].defesa_base <= 10
        /\ EhAtualizarNome(resposta') =>
              /\ itens_magicos' = itens_magicos
              /\ DOMAIN personagens' = DOMAIN personagens
              /\ \A p \in DOMAIN personagens :
                    personagens'[p] =
                        IF p = resposta'.personagem_id /\ resposta'.status = 200
                        THEN [personagens[p] EXCEPT
                                 !.nome_aventureiro = resposta'.body.nome_aventureiro]
                        ELSE personagens[p] ]_vars

\* C9 witness: 7+4 was refused with the budget error while a 6+4 and a 0+10
\* character are stored.
OrcamentoPersonagemWitness ==
    /\ EhCriarPersonagem(resposta)
    /\ resposta.body.forca_base = 7
    /\ resposta.body.defesa_base = 4
    /\ resposta.status = 422
    /\ resposta.detail = {ErroSomaPontos}
    /\ \E p, q \in DOMAIN personagens :
          /\ personagens[p].forca_base = 6 /\ personagens[p].defesa_base = 4
          /\ personagens[q].forca_base = 0 /\ personagens[q].defesa_base = 10

\* C10: with interleaved requests, a request that passed the checks for an
\* unowned item commits its write and answers 200 as long as the character
\* still exists, whatever Amulets the character holds by then.
CorridaAmuleto ==
    [][ \A s \in Pedidos :
          ( /\ pedidos[s] # Livre
            /\ pedidos'[s] = Livre
            /\ pedidos[s].personagem_id \in DOMAIN personagens
            /\ pedidos[s].lido = None )
          => /\ resposta'.status = 200
             /\ itens_magicos'[pedidos[s].item_id].personagem_id = pedidos[s].personagem_id ]_vars

\* C10 witness: both requests were answered 200 and the character owns two
\* Amulets.
CorridaAmuletoWitness ==
    /\ EhAdicionar(resposta)
    /\ resposta.status = 200
    /\ Cardinality(AmuletosDe(itens_magicos, resposta.personagem_id)) = 2
    /\ \A s \in Pedidos : pedidos[s] = Livre
====
